---- MODULE Spec2Model ----
(***************************************************************************)
(* Model of the transactional notification path (server/src/utils/email.js)*)
(* and of the upload controller (server/src/controllers/uploadController.js)*)
(* of the Seekon backend.                                                  *)
(*                                                                         *)
(* JavaScript values are represented as follows.                           *)
(*   - a string-valued environment variable is a TLA+ string; "" stands    *)
(*     for both "unset" and "empty", which the code cannot tell apart      *)
(*     (it only tests truthiness or uses `||`);                            *)
(*   - EMAIL_PORT is a sequence of one-character strings so that parseInt  *)
(*     can be computed character by character; << >> is unset/empty;       *)
(*   - `undefined` read from a missing property is the string Undefined;   *)
(*   - a property that an object literal does not have is Absent;          *)
(*   - null (the transporter) is the handle number 0.                      *)
(*                                                                         *)
(* The EMAIL_* variables of process.env are read only in the synchronous   *)
(* prefix of a dispatcher call and any code of the process may assign them *)
(* between two calls, so they are an input of each call (their value when  *)
(* the call is made) and not a variable.  CLIENT_URL is deployment         *)
(* configuration: it is chosen at start-up and kept.                       *)
(***************************************************************************)
EXTENDS Integers, Sequences, FiniteSets, Bags, TLC

VARIABLES
    clientUrl,          \* process.env.CLIENT_URL
    nodemailerInstalled,\* whether require('nodemailer') succeeds in this process
    transporter,        \* email.js:4   module-level cached handle (NoTransporter = null)
    nodemailerChecked,  \* email.js:5
    loadCount,          \* number of loadNodemailer() executions
    credChecks,         \* number of evaluations of the EMAIL_USER && EMAIL_PASS test
    createCalls,        \* number of nodemailer.createTransport() invocations
    createThrew,        \* history: some createTransport() invocation threw
    calls,              \* bag of dispatcher calls suspended at `await mailer.sendMail`
    last,               \* the dispatcher call that settled most recently
    reqs                \* per slot: an uploadFile request

emailVars == <<clientUrl, nodemailerInstalled, transporter, nodemailerChecked, loadCount,
               credChecks, createCalls, createThrew, calls, last>>
vars == <<clientUrl, nodemailerInstalled, transporter, nodemailerChecked, loadCount,
          credChecks, createCalls, createThrew, calls, last, reqs>>

----------------------------------------------------------------------------
(* Bounds *)

MaxInFlight == 2        \* dispatcher calls that may be suspended at the same time
MaxCount == 3           \* cap of the resolver's counters
MaxReqs == 3            \* upload requests

ReqIds == 1..MaxReqs

----------------------------------------------------------------------------
(* Values *)

Undefined == "<undefined>"
Absent == "<absent>"
NaN == -1
NoUrl == << >>

Users == {"", "seekon@gmail.com"}
Passes == {"", "app-password"}
ClientUrls == {"", "https://seekon.shop"}
Ports == { << >>,
           <<"4","6","5">>,
           <<"5","8","7">>,
           <<"0","4","6","5">>,
           <<" ","4","6","5">>,
           <<"4","6","5","x">> }
Envs == [EMAIL_USER : Users, EMAIL_PASS : Passes, EMAIL_PORT : Ports]
Emails == {"ann@x.io", "bob@x.io"}
Tokens == {"abc123"}

Truthy(s) == s # "" /\ s # Undefined

\* What `await mailer.sendMail(...)` can settle with: fulfilment, or rejection with
\* an Error carrying a code, an Error without code, an object with neither code nor
\* message, a primitive (property reads give undefined), or null/undefined
\* (property reads throw a TypeError).
Fulfilled == [tag |-> "ok", code |-> Undefined, message |-> Undefined]
ErrorObj(c, m) == [tag |-> "object", code |-> c, message |-> m]
Primitive == [tag |-> "primitive", code |-> Undefined, message |-> Undefined]
Nullish == [tag |-> "nullish", code |-> Undefined, message |-> Undefined]
NoSend == [tag |-> "none", code |-> Undefined, message |-> Undefined]
TransientCodes == {"ESOCKET", "ETIMEDOUT", "ECONNREFUSED"}
Failures == {ErrorObj(c, "connect failed") : c \in TransientCodes}
            \cup {ErrorObj("EAUTH", "Invalid login"),
                  ErrorObj(Undefined, "Recipient rejected"),
                  ErrorObj(Undefined, Undefined),
                  Primitive, Nullish}
SendResults == {Fulfilled} \cup Failures

----------------------------------------------------------------------------
(* email.js: parseInt(process.env.EMAIL_PORT || '587') and the secure flag *)

IsSpace(c) == c = " "
DigitValue(c) ==
    CASE c = "0" -> 0 [] c = "1" -> 1 [] c = "2" -> 2 [] c = "3" -> 3 [] c = "4" -> 4
      [] c = "5" -> 5 [] c = "6" -> 6 [] c = "7" -> 7 [] c = "8" -> 8 [] c = "9" -> 9
      [] c \in {"a", "A"} -> 10 [] c \in {"b", "B"} -> 11 [] c \in {"c", "C"} -> 12
      [] c \in {"d", "D"} -> 13 [] c \in {"e", "E"} -> 14 [] c \in {"f", "F"} -> 15
      [] OTHER -> NaN

RECURSIVE SkipSpaces(_)
SkipSpaces(s) == IF s # << >> /\ IsSpace(Head(s)) THEN SkipSpaces(Tail(s)) ELSE s

RECURSIVE ParseDigits(_, _, _, _)
ParseDigits(s, radix, acc, seen) ==
    IF s = << >> \/ DigitValue(Head(s)) = NaN \/ DigitValue(Head(s)) >= radix
    THEN IF seen THEN acc ELSE NaN
    ELSE ParseDigits(Tail(s), radix, acc * radix + DigitValue(Head(s)), TRUE)

HasHexPrefix(s) == Len(s) >= 2 /\ s[1] = "0" /\ s[2] \in {"x", "X"}

\* parseInt(string) with no radix argument: leading white space is skipped, a
\* "0x" prefix selects radix 16, then the longest run of digits is read and
\* whatever follows it is ignored; no digit at all gives NaN.
parseInt(s) ==
    LET t == SkipSpaces(s)
    IN  IF HasHexPrefix(t)
        THEN ParseDigits(Tail(Tail(t)), 16, 0, FALSE)
        ELSE ParseDigits(t, 10, 0, FALSE)

DefaultPort == <<"5","8","7">>
PortString(e) == IF e.EMAIL_PORT # << >> THEN e.EMAIL_PORT ELSE DefaultPort

useSSL(e) == e.EMAIL_PORT = <<"4","6","5">>

\* The options object handed to nodemailer.createTransport.
TransportOptions(e) ==
    [port |-> parseInt(PortString(e)),
     secure |-> useSSL(e),
     user |-> e.EMAIL_USER,
     pass |-> e.EMAIL_PASS]

NoTransporter == [id |-> 0, port |-> 0, secure |-> FALSE, user |-> "", pass |-> ""]
Handle(n, opts) ==
    [id |-> n, port |-> opts.port, secure |-> opts.secure, user |-> opts.user, pass |-> opts.pass]

\* Whether both credentials are set in e (what a call is recorded with).
BothSet(e) == e.EMAIL_USER # "" /\ e.EMAIL_PASS # ""

\* Variant: only EMAIL_USER is tested.
CredentialsSet_UserOnly(e) == Truthy(e.EMAIL_USER)

\* Line 29: process.env.EMAIL_USER && process.env.EMAIL_PASS
CredentialsSet(e) == Truthy(e.EMAIL_USER) /\ Truthy(e.EMAIL_PASS)

----------------------------------------------------------------------------
(* email.js:8-60  Transport Resolver *)

\* loadNodemailer(): the module object, or null when require throws.
loadNodemailer == nodemailerInstalled

\* Whether this invocation of getTransporter gets as far as line 29 / line 34.
ReadsCredentials == transporter.id = 0 /\ ~nodemailerChecked /\ loadNodemailer
CallsCreateTransport(e) == ReadsCredentials /\ CredentialsSet(e)

\* The resolver state and the value returned when getTransporter changes nothing.
Unchanged(ret) ==
    [transporter |-> transporter, checked |-> nodemailerChecked,
     loads |-> loadCount, checks |-> credChecks, creates |-> createCalls,
     threw |-> createThrew, ret |-> ret]

\* Lines 23-59: the body of getTransporter past its two early returns, as the
\* resolver state it leaves and the value it returns.
\* e: process.env when it runs; createThrows: whether nodemailer.createTransport
\* throws in this invocation (it throws an Error; the catch at line 51 reads
\* error.message and goes on).
FirstResolution(e, createThrows) ==
    LET same == Unchanged(transporter)
    IN  IF ~loadNodemailer
        THEN [same EXCEPT !.loads = @ + 1, !.checked = TRUE, !.ret = NoTransporter]
        ELSE IF CredentialsSet(e)
             THEN IF createThrows
                  THEN [same EXCEPT !.loads = @ + 1, !.checks = @ + 1, !.creates = @ + 1,
                                    !.threw = TRUE, !.checked = TRUE]
                  ELSE LET h == Handle(createCalls + 1, TransportOptions(e))
                       IN  [same EXCEPT !.loads = @ + 1, !.checks = @ + 1, !.creates = @ + 1,
                                        !.transporter = h, !.checked = TRUE, !.ret = h]
        ELSE [same EXCEPT !.loads = @ + 1, !.checks = @ + 1, !.checked = TRUE]

\* Variant: the `if (nodemailerChecked) return null` of line 21 is missing.
getTransporter_NoCheckedReturn(e, createThrows) ==
    IF transporter.id # 0 THEN Unchanged(transporter)
    ELSE FirstResolution(e, createThrows)

\* Variant: neither early return (lines 20-21); every call resolves afresh.
getTransporter_Fresh(e, createThrows) == FirstResolution(e, createThrows)

\* Variant: `nodemailerChecked = true` is only reached when createTransport
\* does not throw.
getTransporter_ThrowUnchecked(e, createThrows) ==
    IF transporter.id # 0 THEN Unchanged(transporter)
    ELSE IF nodemailerChecked THEN Unchanged(NoTransporter)
    ELSE LET r == FirstResolution(e, createThrows)
         IN  IF r.creates > createCalls /\ r.ret.id = 0
             THEN [r EXCEPT !.checked = FALSE] ELSE r

\* getTransporter(), lines 19-60.
getTransporter(e, createThrows) ==
    IF transporter.id # 0 THEN Unchanged(transporter)
    ELSE IF nodemailerChecked THEN Unchanged(NoTransporter)
    ELSE FirstResolution(e, createThrows)

----------------------------------------------------------------------------
(* email.js:62-79  Console Fallback Logger *)

logEmailToConsole(type, to, url) == [type |-> type, to |-> to, url |-> url]

----------------------------------------------------------------------------
(* email.js:81-187  Notification Dispatcher *)

PathSegment(kind) == IF kind = "verification" THEN "/verify-email/" ELSE "/reset-password/"
LogType(kind) == IF kind = "verification" THEN "VERIFICATION EMAIL" ELSE "PASSWORD RESET EMAIL"

\* `${process.env.CLIENT_URL || 'http://localhost:5173'}/<segment>/${token}`
ActionUrl(kind, token) ==
    <<IF Truthy(clientUrl) THEN clientUrl ELSE "http://localhost:5173",
      PathSegment(kind), token>>

ConsoleOutcome(url) ==
    [settled |-> "resolved", success |-> TRUE,
     message |-> "Email logged to console (check server logs)",
     development |-> TRUE, url |-> url, error |-> Absent]

SmtpFallbackOutcome(url) ==
    [settled |-> "resolved", success |-> TRUE,
     message |-> "Email logged to console (SMTP connection failed - check your network/firewall)",
     development |-> TRUE, url |-> url, error |-> Absent]

SentOutcome(kind) ==
    [settled |-> "resolved", success |-> TRUE,
     message |-> IF kind = "verification" THEN "Verification email sent successfully"
                 ELSE "Password reset email sent successfully",
     development |-> FALSE, url |-> NoUrl, error |-> Absent]

FailedOutcome(kind, error) ==
    [settled |-> "resolved", success |-> FALSE,
     message |-> IF kind = "verification" THEN "Failed to send verification email"
                 ELSE "Failed to send password reset email",
     development |-> FALSE, url |-> NoUrl, error |-> error.message]

\* The async function's promise rejects: an exception left the function body.
RejectedOutcome ==
    [settled |-> "rejected", success |-> FALSE, message |-> "TypeError",
     development |-> FALSE, url |-> NoUrl, error |-> Absent]

\* Variant: ECONNREFUSED is not among the codes tested.
IsConnectionError_NoRefused(error) == error.code \in {"ESOCKET", "ETIMEDOUT"}

\* Lines 121 / 175.
IsConnectionError(error) == error.code \in TransientCodes

\* A call suspended at the await: what its continuation still holds.
Pending(kind, to, url, mailer, credsSet) ==
    [kind |-> kind, to |-> to, url |-> url, mailer |-> mailer, credsSet |-> credsSet]

\* A settled call: its inputs, whether the credentials were set when it was
\* made, the handle it used (0: none), what sendMail settled with, the number of
\* sendMail attempts, the fallback logger's invocations and the outcome.
Settled(c, result, sends, logs, outcome) ==
    [kind |-> c.kind, to |-> c.to, url |-> c.url, mailer |-> c.mailer,
     credsSet |-> c.credsSet, result |-> result, sends |-> sends, logs |-> logs,
     outcome |-> outcome]

\* No call has settled yet.
NoOutcome ==
    [settled |-> "none", success |-> FALSE, message |-> Absent,
     development |-> FALSE, url |-> NoUrl, error |-> Absent]
NoCall == Settled(Pending("", "", NoUrl, 0, FALSE), NoSend, 0, << >>, NoOutcome)

\* Variant: the fallback logger is called before the error code is inspected.
CatchSendError_AlwaysLog(kind, to, url, error) ==
    IF error.tag = "nullish"
    THEN [logs |-> << >>, outcome |-> RejectedOutcome]
    ELSE IF error.code \in TransientCodes
    THEN [logs |-> <<logEmailToConsole(LogType(kind), to, url)>>,
          outcome |-> SmtpFallbackOutcome(url)]
    ELSE [logs |-> <<logEmailToConsole(LogType(kind), to, url)>>,
          outcome |-> FailedOutcome(kind, error)]

\* The catch block of either dispatcher (lines 118-132 / 172-186), as the
\* fallback log entries it makes and the outcome of the call.
CatchSendError(kind, to, url, error) ==
    IF error.tag = "nullish"
    THEN [logs |-> << >>, outcome |-> RejectedOutcome]     \* error.message throws
    ELSE IF IsConnectionError(error)
    THEN [logs |-> <<logEmailToConsole(LogType(kind), to, url)>>,
          outcome |-> SmtpFallbackOutcome(url)]
    ELSE [logs |-> << >>, outcome |-> FailedOutcome(kind, error)]

\* The environment variables and the createTransport behaviour that this
\* invocation does not read are fixed to one representative.
InputsRead(e, createThrows) ==
    /\ ~CallsCreateTransport(e) => e.EMAIL_PORT = << >> /\ ~createThrows

\* A dispatcher call up to its first suspension point: lines 82-115 / 136-169.
\* With no mailer the call completes here (there is no await on that path).
Dispatch(kind, e, email, token, createThrows) ==
    /\ InputsRead(e, createThrows)
    /\ LET url == ActionUrl(kind, token)
           r == getTransporter(e, createThrows)
           c == Pending(kind, email, url, r.ret.id, BothSet(e))
       IN  /\ r.loads <= MaxCount /\ r.checks <= MaxCount /\ r.creates <= MaxCount
           /\ transporter' = r.transporter
           /\ nodemailerChecked' = r.checked
           /\ loadCount' = r.loads
           /\ credChecks' = r.checks
           /\ createCalls' = r.creates
           /\ createThrew' = r.threw
           /\ IF r.ret.id = 0
              THEN /\ last' = Settled(c, NoSend, 0,
                                      <<logEmailToConsole(LogType(kind), email, url)>>,
                                      ConsoleOutcome(url))
                   /\ UNCHANGED calls
              ELSE /\ BagCardinality(calls) < MaxInFlight
                   /\ calls' = calls (+) SetToBag({c})
                   /\ UNCHANGED last
    /\ UNCHANGED <<clientUrl, nodemailerInstalled, reqs>>

\* The rest of a dispatcher call once sendMail has settled: lines 116-132 / 170-186.
SendSettled(c, kind, result) ==
    /\ BagIn(c, calls)
    /\ c.kind = kind
    /\ LET done == IF result.tag = "ok"
                   THEN [logs |-> << >>, outcome |-> SentOutcome(kind)]
                   ELSE CatchSendError(kind, c.to, c.url, result)
       IN  last' = Settled(c, result, 1, done.logs, done.outcome)
    /\ calls' = calls (-) SetToBag({c})
    /\ UNCHANGED <<clientUrl, nodemailerInstalled, transporter, nodemailerChecked, loadCount,
                   credChecks, createCalls, createThrew, reqs>>

sendVerificationEmail(e, email, token, createThrows) ==
    Dispatch("verification", e, email, token, createThrows)

sendPasswordResetEmail(e, email, token, createThrows) ==
    Dispatch("reset", e, email, token, createThrows)

verificationSendSettled(c, result) == SendSettled(c, "verification", result)

resetSendSettled(c, result) == SendSettled(c, "reset", result)

----------------------------------------------------------------------------
(* uploadController.js:9-54  uploadFile *)

\* req.file: absent, or the multer file object with its temporary path.
Files == {"none", "path"}

\* What `await uploadToCloudinary(req.file.path)` settles with.
UploadOk(u, p) == [ok |-> TRUE, url |-> u, public_id |-> p, message |-> Undefined]
UploadErr(m) == [ok |-> FALSE, url |-> Undefined, public_id |-> Undefined, message |-> m]
UploadResults == {UploadOk("https://res.cloudinary.com/seekon/a.png", "seekon/a"),
                  UploadOk("https://res.cloudinary.com/seekon/b.png", "seekon/b"),
                  UploadErr("Invalid api_key"), UploadErr("")}
UnlinkError == "EPERM: operation not permitted, unlink"

NoRequest == [pc |-> "idle", file |-> "none", uploaded |-> FALSE, unlinks |-> 0,
              unlinkFailures |-> 0, unlinkLogged |-> 0, responses |-> 0, status |-> 0,
              success |-> FALSE, message |-> Absent, url |-> Absent, publicId |-> Absent]

\* res.status(code).json(body)
Respond(r, code, ok, msg, u, p) ==
    [r EXCEPT !.pc = "done", !.responses = @ + 1, !.status = code, !.success = ok,
              !.message = msg, !.url = u, !.publicId = p]

\* The catch block, lines 32-53: a second, guarded deletion and the 500 answer.
\* error: the message of the caught error; unlinkThrows: whether the deletion
\* inside the catch block throws.
UploadCatch(r, error, unlinkThrows) ==
    LET r1 == IF r.file = "path"
              THEN [r EXCEPT !.unlinks = @ + 1,
                             !.unlinkFailures = IF unlinkThrows THEN @ + 1 ELSE @,
                             !.unlinkLogged = IF unlinkThrows THEN @ + 1 ELSE @]
              ELSE r
    IN  Respond(r1, 500, FALSE, IF Truthy(error) THEN error ELSE "Upload failed",
                Absent, Absent)

\* uploadFile up to `await uploadToCloudinary`: lines 9-19.
uploadFile(i, file) ==
    /\ reqs[i].pc = "idle"
    /\ \A j \in ReqIds : j < i => reqs[j].pc # "idle"
    /\ reqs' = [reqs EXCEPT ![i] =
                  IF file = "none"
                  THEN Respond([NoRequest EXCEPT !.file = file], 400, FALSE,
                               "No file uploaded", Absent, Absent)
                  ELSE [NoRequest EXCEPT !.pc = "uploading", !.file = file]]
    /\ UNCHANGED emailVars

\* uploadFile after the upload has settled: lines 19-53.
\* unlink1Throws / unlink2Throws: whether fs.unlinkSync throws at line 22 / 36.
uploadSettled(i, result, unlink1Throws, unlink2Throws) ==
    /\ reqs[i].pc = "uploading"
    /\ LET r == reqs[i]
           bad1 == unlink1Throws
       IN  reqs' = [reqs EXCEPT ![i] =
             IF result.ok
             THEN LET r1 == [r EXCEPT !.uploaded = TRUE, !.unlinks = @ + 1,
                                      !.unlinkFailures = IF bad1 THEN @ + 1 ELSE @]
                  IN  IF bad1
                      THEN UploadCatch(r1, UnlinkError, unlink2Throws)
                      ELSE Respond(r1, 200, TRUE, "File uploaded successfully",
                                   result.url, result.public_id)
             ELSE UploadCatch(r, result.message, unlink2Throws)]
    /\ UNCHANGED emailVars

----------------------------------------------------------------------------
(* Specifications *)

Init ==
    /\ clientUrl \in ClientUrls
    /\ nodemailerInstalled \in BOOLEAN
    /\ transporter = NoTransporter
    /\ nodemailerChecked = FALSE
    /\ loadCount = 0
    /\ credChecks = 0
    /\ createCalls = 0
    /\ createThrew = FALSE
    /\ calls = EmptyBag
    /\ last = NoCall
    /\ reqs = [i \in ReqIds |-> NoRequest]

Next ==
    \/ \E e \in Envs, email \in Emails, token \in Tokens, t \in BOOLEAN :
          sendVerificationEmail(e, email, token, t)
    \/ \E e \in Envs, email \in Emails, token \in Tokens, t \in BOOLEAN :
          sendPasswordResetEmail(e, email, token, t)
    \/ \E c \in BagToSet(calls), result \in SendResults : verificationSendSettled(c, result)
    \/ \E c \in BagToSet(calls), result \in SendResults : resetSendSettled(c, result)

Spec == Init /\ [][Next]_vars

NextUpload ==
    \/ \E i \in ReqIds, file \in Files : uploadFile(i, file)
    \/ \E i \in ReqIds, result \in UploadResults, u1 \in BOOLEAN, u2 \in BOOLEAN :
          uploadSettled(i, result, u1, u2)

SpecUpload == Init /\ [][NextUpload]_vars

----------------------------------------------------------------------------
(* Properties of the notification path, checked under Spec *)

SomeCallSettled == last.kind # ""
SendFailed == last.sends = 1 /\ last.result.tag # "ok"

\* The fallback logger ran exactly once in the last call, for its recipient and URL.
LoggedOnceFor(l) ==
    /\ Len(l.logs) = 1
    /\ l.logs[1].to = l.to
    /\ l.logs[1].url = l.url
    /\ l.logs[1].url = ActionUrl(l.kind, l.url[3])

DevelopmentSuccess(l) ==
    /\ l.outcome.settled = "resolved"
    /\ l.outcome.success
    /\ l.outcome.development

\* C1 as stated: every call made while EMAIL_USER or EMAIL_PASS is unset returns
\* success = true and development = true and invokes the fallback logger exactly
\* once with the call's recipient and action URL.
C1_UnsetCredentialsAlwaysFallBack ==
    (SomeCallSettled /\ ~last.credsSet) => DevelopmentSuccess(last) /\ LoggedOnceFor(last)

\* C1 amended: a call made while EMAIL_USER or EMAIL_PASS is unset and while no
\* transport handle is cached never reaches sendMail; it settles at once with
\* success = true, development = true and exactly one fallback log for its
\* recipient and action URL.
C1_UnsetCredentialsNoCachedHandle ==
    [][transporter.id = 0 =>
         /\ \A c \in BagToSet(calls') : c.credsSet
         /\ (last' # last /\ ~last'.credsSet) =>
               /\ last'.sends = 0
               /\ DevelopmentSuccess(last')
               /\ LoggedOnceFor(last')]_vars

C1_Witness ==
    /\ SomeCallSettled /\ ~last.credsSet
    /\ nodemailerInstalled /\ credChecks = 1 /\ createCalls = 0
    /\ last.outcome = ConsoleOutcome(last.url)

\* C2: once a getTransporter call has completed the resolver is frozen: the
\* checked flag stays set, the cached value never changes, the library is not
\* loaded again, the credentials are not read again, createTransport is not
\* called again, and every call gets the cached handle (or none).
C2_ResolverMemoized ==
    [][/\ loadCount' > 0 => nodemailerChecked'
       /\ nodemailerChecked =>
            /\ nodemailerChecked'
            /\ transporter' = transporter
            /\ loadCount' = loadCount
            /\ credChecks' = credChecks
            /\ createCalls' = createCalls
            /\ \A c \in BagToSet(calls') : c.mailer = transporter.id /\ c.mailer # 0
            /\ last' # last => last'.mailer = transporter.id]_vars

C2_Witness ==
    /\ nodemailerChecked /\ transporter.id # 0
    /\ SomeCallSettled /\ ~last.credsSet /\ last.mailer = transporter.id

\* C3: the promise of every dispatcher call resolves to an outcome object; it
\* never rejects.
C3_NeverRejects == SomeCallSettled => last.outcome.settled = "resolved"

\* C4: a send that fails with ESOCKET, ETIMEDOUT or ECONNREFUSED gives
\* success = true, development = true, the action URL, the SMTP-connection-failure
\* message, and a fallback log for the call.
C4_ConnectionFailureFallsBack ==
    (SendFailed /\ last.result.tag = "object"
        /\ last.result.code \in {"ESOCKET", "ETIMEDOUT", "ECONNREFUSED"}) =>
        /\ DevelopmentSuccess(last)
        /\ last.outcome.url = last.url
        /\ last.outcome.message =
             "Email logged to console (SMTP connection failed - check your network/firewall)"
        /\ LoggedOnceFor(last)

C4_Witness ==
    /\ SendFailed /\ last.result.code = "ECONNREFUSED"
    /\ last.outcome.development /\ Len(last.logs) = 1

\* C5: a send that fails with any failure whose code is not ESOCKET, ETIMEDOUT or
\* ECONNREFUSED gives success = false, error = the failure's message, no
\* development flag and no fallback log.
C5_OtherFailureReported ==
    (SendFailed /\ last.result.code \notin {"ESOCKET", "ETIMEDOUT", "ECONNREFUSED"}) =>
        /\ last.outcome.settled = "resolved"
        /\ ~last.outcome.success
        /\ last.outcome.error = last.result.message
        /\ ~last.outcome.development
        /\ last.logs = << >>

\* C6: in every constructed transport configuration the secure flag is true
\* if and only if the port is 465.
C6_SecureIffPort465 ==
    transporter.id # 0 => (transporter.secure <=> transporter.port = 465)

\* C7: per call, Start -> Resolve -> (Unavailable -> Fallback | Available -> Send ->
\* (Ok | TransientFail -> Fallback | OtherFail -> Failed)): the fallback logger runs
\* exactly once in a call whose outcome has development = true and not at all in
\* any other call; an accepted send returns success = true without development
\* flag and without fallback log; sendMail is attempted at most once per call.
C7_PerCallStateMachine ==
    SomeCallSettled =>
        /\ last.sends <= 1
        /\ last.sends = 0 <=> last.mailer = 0
        /\ last.mailer = 0 => last.outcome.development
        /\ last.outcome.development => Len(last.logs) = 1
        /\ ~last.outcome.development => last.logs = << >>
        /\ last.result.tag = "ok" =>
              /\ last.outcome.settled = "resolved"
              /\ last.outcome.success
              /\ ~last.outcome.development
        /\ (SendFailed /\ last.outcome.settled = "resolved") =>
              IF last.result.code \in {"ESOCKET", "ETIMEDOUT", "ECONNREFUSED"}
              THEN last.outcome.success /\ last.outcome.development
              ELSE ~last.outcome.success /\ ~last.outcome.development

C7_Witness ==
    /\ SomeCallSettled /\ last.sends = 1 /\ last.result.tag = "ok"
    /\ last.outcome.success /\ last.logs = << >>

\* C8: whatever the interleaving of concurrent calls, the library is loaded, the
\* credentials are checked and createTransport is called by at most one call, at
\* most one handle is ever constructed, and every sending call uses that handle.
C8_SingleHandle ==
    /\ loadCount <= 1 /\ credChecks <= 1 /\ createCalls <= 1
    /\ transporter.id \in {0, 1}
    /\ \A c \in BagToSet(calls) : c.mailer = 1 /\ c.mailer = transporter.id
    /\ last.mailer # 0 => last.mailer = transporter.id

C8_Witness ==
    /\ BagCardinality(calls) >= 2
    /\ last.sends = 1 /\ last.mailer = transporter.id

\* C10: when createTransport throws, the resolver absorbs it: the checked flag
\* is set, nothing is cached, construction is not attempted again, and that call
\* and every later call settle by console fallback with success = true and
\* development = true.
C10_CreateThrowAbsorbed ==
    createThrew =>
        /\ nodemailerChecked
        /\ transporter.id = 0
        /\ createCalls = 1
        /\ calls = EmptyBag
        /\ last.sends = 0
        /\ DevelopmentSuccess(last)
        /\ LoggedOnceFor(last)

C10_Witness == createThrew /\ SomeCallSettled /\ ~last.credsSet

----------------------------------------------------------------------------
(* Property of the upload controller, checked under SpecUpload *)

\* C9: a failing deletion of the temporary file never changes the response: a
\* request whose upload succeeded is answered 200 with url and publicId, and
\* exactly one response is sent per request.
C9_UnlinkFailureKeepsResponse ==
    \A i \in ReqIds :
        reqs[i].pc = "done" =>
            /\ reqs[i].responses = 1
            /\ reqs[i].uploaded =>
                  /\ reqs[i].status = 200
                  /\ reqs[i].url # Absent
                  /\ reqs[i].publicId # Absent

====
